---- MODULE Spec2Model ----
(***************************************************************************)
(* The direct-lighting stage of the split path-tracing kernel              *)
(* (src/src/kernel/split/kernel_direct_lighting.h) run by every thread of  *)
(* every work group over the shared ray slot store and the queue array.    *)
(* The work-group geometry is one-dimensional: ccl_global_size(1) and      *)
(* ccl_local_size(1) are 1, so ccl_global_id(1) = ccl_local_id(1) = 0.     *)
(***************************************************************************)
EXTENDS Integers, Sequences, FiniteSets, TLC

(* ------------------------------ bounds --------------------------------- *)
\* largest number of threads of one dispatch (groups * group size)
MaxThreads == 4
\* largest number of work groups of one dispatch
MaxGroups == 3

(* ------------------- constants of the kernel headers ------------------- *)
QUEUE_EMPTY_SLOT == -1
QUEUE_ACTIVE_AND_REGENERATED_RAYS == 0
QUEUE_HITBG_BUFF_UPDATE_TOREGEN_RAYS == 1
QUEUE_SHADOW_RAY_CAST_AO_RAYS == 2
QUEUE_SHADOW_RAY_CAST_DL_RAYS == 3
NUM_QUEUES == 4

RAY_INVALID == 0
RAY_ACTIVE == 1
RAY_TO_REGENERATE == 5
RAY_REGENERATED == 6
RAY_STATE_MASK == 7
RAY_SHADOW_RAY_CAST_AO == 16
RAY_SHADOW_RAY_CAST_DL == 32

SD_BSDF == 1
SD_BSDF_HAS_EVAL == 2

PRNG_LIGHT == 0
PRNG_LIGHT_U == 1
PRNG_LIGHT_V == 2
PRNG_LIGHT_TERMINATE == 3
\* the samples of the stand-in random number generator are 0 .. RNG_RANGE-1
RNG_RANGE == 5

(* --------------------------- bit arithmetic ---------------------------- *)
RECURSIVE BitOr(_, _)
BitOr(a, b) ==
    IF a = 0 THEN b
    ELSE IF b = 0 THEN a
    ELSE (IF a % 2 = 1 \/ b % 2 = 1 THEN 1 ELSE 0) + 2 * BitOr(a \div 2, b \div 2)

RECURSIVE BitAnd(_, _)
BitAnd(a, b) ==
    IF a = 0 \/ b = 0 THEN 0
    ELSE (IF a % 2 = 1 /\ b % 2 = 1 THEN 1 ELSE 0) + 2 * BitAnd(a \div 2, b \div 2)

(* ------------------------------- state --------------------------------- *)
VARIABLES
    COMPUTE_DEVICE_GPU,   \* build variant: TRUE = __COMPUTE_DEVICE_GPU__ defined
    EMISSION,             \* build variant: TRUE = __EMISSION__ defined
    use_direct_light,     \* kernel_data.integrator.use_direct_light
    global_size,          \* ccl_global_size(0)
    local_size,           \* ccl_local_size(0)
    queue_data,           \* kernel_split_state.queue_data (all queues, flat)
    queue_index,          \* kernel_split_params.queue_index (one counter per queue)
    ray_state,            \* kernel_split_state.ray_state
    sd_flag,              \* ccl_fetch(sd, flag) of the slot's shading data
    rng,                  \* kernel_split_state.rng
    light_ray,            \* kernel_split_state.light_ray
    bsdf_eval,            \* kernel_split_state.bsdf_eval
    is_lamp,              \* kernel_split_state.is_lamp
    local_queue_atomics,  \* ccl_local counter, one per group
    local_queue,          \* group-local staging buffer of the enqueue
    queue_offset,         \* start of the region a group reserved
    pc,                   \* position of each thread in the kernel
    ray_index,            \* local variable ray_index of each thread
    enqueue_flag,         \* local variable enqueue_flag of each thread
    lqidx,                \* offset a thread claimed in its group's buffer
    queue_data0,          \* history: queue_data at entry
    queue_index0,         \* history: queue_index at entry
    accessed,             \* history: slots a thread read or wrote
    written,              \* history: (slot, field) pairs written by the stage
    counter_resets,       \* history: resets of local_queue_atomics per group
    barriers_reached,     \* history: barriers a thread has arrived at
    reservations          \* history: the global reservations, in order

vars == <<COMPUTE_DEVICE_GPU, EMISSION, use_direct_light, global_size, local_size,
          queue_data, queue_index, ray_state, sd_flag, rng, light_ray,
          bsdf_eval, is_lamp, local_queue_atomics, local_queue, queue_offset,
          pc, ray_index, enqueue_flag, lqidx, queue_data0, queue_index0, accessed,
          written, counter_resets, barriers_reached, reservations>>

config == <<COMPUTE_DEVICE_GPU, EMISSION, use_direct_light, global_size,
            local_size, sd_flag, rng, queue_data0, queue_index0>>

(* --------------------------- the slot store ---------------------------- *)
\* order in which the slots are laid out in the input queue, and the
\* position of the order each layout starts at
SlotOrder == <<3, 7, 9, 5, 4, 1, 0, 2, 6, 8>>
LayoutStart == <<0, 2, 5>>
NumLayouts == Len(LayoutStart)
NumSlots == Len(SlotOrder)
Slots == 0 .. (NumSlots - 1)
Layout(k, i) == SlotOrder[((i + LayoutStart[k + 1]) % NumSlots) + 1]

\* kernel_split_params.queue_size: every queue has room for one entry per thread
queue_size == global_size
Threads == 0 .. (global_size - 1)
Groups == 0 .. ((global_size \div local_size) - 1)
GroupOf(t) == t \div local_size
LocalId(t) == t % local_size
GroupThreads(g) == {t \in Threads : GroupOf(t) = g}

\* The slot store at entry.  Slots 3, 7 and 9 are those of the scenario of
\* the specification: 3 passes every test, 7 has no evaluable BSDF, 9 finds
\* no light.  Slot 4 finds a light whose sample direct_emission rejects,
\* slots 5 and 8 are not RAY_ACTIVE, slot 1 is RAY_ACTIVE and already marked
\* for the ambient-occlusion shadow test.
InitRayState ==
    [s \in Slots |->
        CASE s = 1 -> RAY_ACTIVE + RAY_SHADOW_RAY_CAST_AO
          [] s = 5 -> RAY_REGENERATED
          [] s = 8 -> RAY_TO_REGENERATE + RAY_SHADOW_RAY_CAST_AO
          [] OTHER -> RAY_ACTIVE]
InitSdFlag ==
    [s \in Slots |-> IF s = 7 THEN SD_BSDF ELSE SD_BSDF + SD_BSDF_HAS_EVAL]
InitRng ==
    [s \in Slots |-> CASE s = 9 -> 0 [] s = 4 -> 1 [] OTHER -> IF s % 2 = 0 THEN 2 ELSE 4]
\* scratch left behind by an earlier round
StaleRay == [t |-> 0, u |-> 0, v |-> 0]
StaleEval == 0

QueuePos(queue_number, queuesize, i) == queue_number * queuesize + i

(* ------------------------ external collaborators ----------------------- *)
\* Deterministic stand-ins: each result is a function of its arguments only.
path_state_rng_1D(r, dimension) == (r * (dimension + 1)) % RNG_RANGE
path_state_rng_light_termination(r) == path_state_rng_1D(r, PRNG_LIGHT_TERMINATE)
\* light_sample: found is FALSE when no light is found
light_sample(light_t, light_u, light_v) ==
    [found |-> light_t # 0, t |-> light_t, u |-> light_u, v |-> light_v]
\* direct_emission: rejects a sample whose contribution is below the
\* termination threshold
direct_emission(flag, ls, terminate) ==
    [accepted  |-> ls.u >= terminate,
     light_ray |-> [t |-> ls.t, u |-> ls.u, v |-> ls.v],
     L_light   |-> ls.u + ls.v + 1,
     is_lamp   |-> ls.t = 2]

(* ----------------------- helpers of the split kernel ------------------- *)
IS_STATE(rs, state) == BitAnd(rs, RAY_STATE_MASK) = state
ADD_RAY_FLAG(rs, flag) == BitOr(rs, flag)

\* get_ray_index: the entry of the queue at the thread's position; the entry
\* is emptied only when empty_queue is set
get_ray_index(qd, thread_index, queue_number, queuesize, empty_queue) ==
    LET pos == QueuePos(queue_number, queuesize, thread_index)
    IN  [ray_index |-> qd[pos],
         queues    |-> IF empty_queue # 0 /\ qd[pos] # QUEUE_EMPTY_SLOT
                       THEN [qd EXCEPT ![pos] = QUEUE_EMPTY_SLOT]
                       ELSE qd]

(* ------------------------------ barriers ------------------------------- *)
\* Position of a thread in the kernel, in program order.
PcRank(p) ==
    CASE p = "reset" -> 0 [] p = "fetch" -> 1 [] p = "shade" -> 2
      [] p = "mark" -> 3 [] p = "enqueue" -> 4 [] p = "reserve" -> 5
      [] p = "copy" -> 6 [] p = "done" -> 7
\* BarrierPassed for a barrier that lets every thread through at once
BarrierPassed_NoWait(g, rank) == TRUE

\* ccl_barrier: a thread passes once every thread of its group has arrived;
\* a thread that has left the kernel no longer holds the others back.
BarrierPassed(g, rank) == \A u \in GroupThreads(g) : PcRank(pc[u]) >= rank

\* Participates without the early return: every thread is taken to be there
Participates_All(u) == TRUE

\* A thread takes part in the enqueue unless it returned at line 75.
Participates(u) == ~(COMPUTE_DEVICE_GPU /\ ray_index[u] = QUEUE_EMPTY_SLOT)
\* The one thread of a group that makes the group's global reservation.
IsRepresentative(t) ==
    /\ Participates(t)
    /\ \A u \in GroupThreads(GroupOf(t)) : Participates(u) => LocalId(t) <= LocalId(u)

(* -------------------------------- Init --------------------------------- *)
\* value of the uninitialised ccl_local counter before line 54
LocalGarbage == {0, 2}

\* the sets of positions of the input queue that may be empty
Holes(T) == SUBSET (0 .. (T - 1))

\* the build variants and settings: use_direct_light is read only with __EMISSION__
Builds == {<<TRUE, TRUE>>, <<TRUE, FALSE>>, <<FALSE, FALSE>>}

InputQueue(T, k, holes) ==
    [p \in 0 .. (NUM_QUEUES * T - 1) |->
        CASE p < T -> IF p \in holes THEN QUEUE_EMPTY_SLOT ELSE Layout(k, p)
          [] p = QueuePos(QUEUE_HITBG_BUFF_UPDATE_TOREGEN_RAYS, T, 0) -> 5
          [] p = QueuePos(QUEUE_SHADOW_RAY_CAST_AO_RAYS, T, 0) -> 1
          [] OTHER -> QUEUE_EMPTY_SLOT]

Init ==
    /\ COMPUTE_DEVICE_GPU \in BOOLEAN
    /\ \E b \in Builds : EMISSION = b[1] /\ use_direct_light = b[2]
    /\ global_size \in 1 .. MaxThreads
    /\ local_size \in {l \in 1 .. MaxThreads :
                          global_size % l = 0 /\ global_size \div l <= MaxGroups}
    /\ \E k \in 0 .. (NumLayouts - 1) : \E holes \in Holes(global_size) :
          /\ queue_data = InputQueue(queue_size, k, holes)
          /\ queue_index = [q \in 0 .. (NUM_QUEUES - 1) |->
                CASE q = QUEUE_ACTIVE_AND_REGENERATED_RAYS -> queue_size
                  [] q = QUEUE_SHADOW_RAY_CAST_DL_RAYS -> 0
                  [] OTHER -> 1]
    /\ queue_data0 = queue_data
    /\ queue_index0 = queue_index
    /\ ray_state = InitRayState
    /\ sd_flag = InitSdFlag
    /\ rng = InitRng
    /\ light_ray = [s \in Slots |-> StaleRay]
    /\ bsdf_eval = [s \in Slots |-> StaleEval]
    /\ is_lamp = [s \in Slots |-> FALSE]
    /\ \E v \in LocalGarbage : local_queue_atomics = [g \in Groups |-> v]
    /\ local_queue = [g \in Groups |-> [i \in 0 .. (local_size - 1) |-> QUEUE_EMPTY_SLOT]]
    /\ queue_offset = [g \in Groups |-> 0]
    /\ pc = [t \in Threads |-> "reset"]
    /\ ray_index = [t \in Threads |-> QUEUE_EMPTY_SLOT]
    /\ enqueue_flag = [t \in Threads |-> 0]
    /\ lqidx = [t \in Threads |-> 0]
    /\ accessed = [t \in Threads |-> {}]
    /\ written = {}
    /\ counter_resets = [g \in Groups |-> 0]
    /\ barriers_reached = [t \in Threads |-> 0]
    /\ reservations = <<>>

(* ------------------------------ the kernel ----------------------------- *)
\* ResetLocalCounter without the assignment of line 54
ResetLocalCounter_NoReset(t) ==
    /\ pc[t] = "reset"
    /\ pc' = [pc EXCEPT ![t] = "fetch"]
    /\ barriers_reached' = [barriers_reached EXCEPT ![t] = @ + 1]
    /\ UNCHANGED <<config, queue_data, queue_index, ray_state, light_ray, bsdf_eval,
                   is_lamp, local_queue_atomics, local_queue, queue_offset, ray_index,
                   enqueue_flag, lqidx, accessed, written, counter_resets,
                   reservations>>

\* ResetLocalCounter without the test of line 53: every thread zeroes the counter
ResetLocalCounter_EveryThread(t) ==
    /\ pc[t] = "reset"
    /\ local_queue_atomics' = [local_queue_atomics EXCEPT ![GroupOf(t)] = 0]
    /\ counter_resets' = [counter_resets EXCEPT ![GroupOf(t)] = @ + 1]
    /\ pc' = [pc EXCEPT ![t] = "fetch"]
    /\ barriers_reached' = [barriers_reached EXCEPT ![t] = @ + 1]
    /\ UNCHANGED <<config, queue_data, queue_index, ray_state, light_ray, bsdf_eval,
                   is_lamp, local_queue, queue_offset, ray_index, enqueue_flag,
                   lqidx, accessed, written, reservations>>

\* lines 52-56: the thread with local id 0 zeroes the group's counter
ResetLocalCounter(t) ==
    /\ pc[t] = "reset"
    /\ IF LocalId(t) = 0
       THEN /\ local_queue_atomics' = [local_queue_atomics EXCEPT ![GroupOf(t)] = 0]
            /\ counter_resets' = [counter_resets EXCEPT ![GroupOf(t)] = @ + 1]
       ELSE UNCHANGED <<local_queue_atomics, counter_resets>>
    /\ pc' = [pc EXCEPT ![t] = "fetch"]
    /\ barriers_reached' = [barriers_reached EXCEPT ![t] = @ + 1]
    /\ UNCHANGED <<config, queue_data, queue_index, ray_state, light_ray, bsdf_eval,
                   is_lamp, local_queue, queue_offset, ray_index, enqueue_flag,
                   lqidx, accessed, written, reservations>>

\* GetRayIndex that passes 1 for empty_queue
GetRayIndex_Emptying(t) ==
    /\ pc[t] = "fetch"
    /\ BarrierPassed(GroupOf(t), 1)
    /\ LET r == get_ray_index(queue_data, t, QUEUE_ACTIVE_AND_REGENERATED_RAYS,
                              queue_size, 1)
       IN  /\ ray_index' = [ray_index EXCEPT ![t] = r.ray_index]
           /\ queue_data' = r.queues
           /\ pc' = [pc EXCEPT ![t] =
                        IF COMPUTE_DEVICE_GPU /\ r.ray_index = QUEUE_EMPTY_SLOT
                        THEN "done" ELSE "shade"]
    /\ UNCHANGED <<config, barriers_reached, queue_index, ray_state, light_ray,
                   bsdf_eval, is_lamp,
                   local_queue_atomics, local_queue, queue_offset, enqueue_flag,
                   lqidx, accessed, written, counter_resets, reservations>>

\* GetRayIndex that keeps the thread index of line 59 as the ray index
GetRayIndex_NoQueue(t) ==
    /\ pc[t] = "fetch"
    /\ BarrierPassed(GroupOf(t), 1)
    /\ ray_index' = [ray_index EXCEPT ![t] = t]
    /\ pc' = [pc EXCEPT ![t] = "shade"]
    /\ UNCHANGED <<config, barriers_reached, queue_data, queue_index, ray_state,
                   light_ray, bsdf_eval,
                   is_lamp, local_queue_atomics, local_queue, queue_offset,
                   enqueue_flag, lqidx, accessed, written, counter_resets,
                   reservations>>

\* GetRayIndex with the return of line 75 compiled into every build
GetRayIndex_ReturnInEveryBuild(t) ==
    /\ pc[t] = "fetch"
    /\ BarrierPassed(GroupOf(t), 1)
    /\ LET r == get_ray_index(queue_data, t, QUEUE_ACTIVE_AND_REGENERATED_RAYS,
                              queue_size, 0)
       IN  /\ ray_index' = [ray_index EXCEPT ![t] = r.ray_index]
           /\ queue_data' = r.queues
           /\ pc' = [pc EXCEPT ![t] =
                        IF r.ray_index = QUEUE_EMPTY_SLOT THEN "done" ELSE "shade"]
    /\ UNCHANGED <<config, barriers_reached, queue_index, ray_state, light_ray,
                   bsdf_eval, is_lamp, local_queue_atomics, local_queue,
                   queue_offset, enqueue_flag, lqidx, accessed, written,
                   counter_resets, reservations>>

\* lines 56-77: the barrier, get_ray_index, and the early return of the GPU build
GetRayIndex(t) ==
    /\ pc[t] = "fetch"
    /\ BarrierPassed(GroupOf(t), 1)
    /\ LET r == get_ray_index(queue_data, t, QUEUE_ACTIVE_AND_REGENERATED_RAYS,
                              queue_size, 0)
       IN  /\ ray_index' = [ray_index EXCEPT ![t] = r.ray_index]
           /\ queue_data' = r.queues
           /\ pc' = [pc EXCEPT ![t] =
                        IF COMPUTE_DEVICE_GPU /\ r.ray_index = QUEUE_EMPTY_SLOT
                        THEN "done" ELSE "shade"]
    /\ UNCHANGED <<config, barriers_reached, queue_index, ray_state, light_ray,
                   bsdf_eval, is_lamp,
                   local_queue_atomics, local_queue, queue_offset, enqueue_flag,
                   lqidx, accessed, written, counter_resets, reservations>>

\* DirectLight that takes a light sample for found whatever light_sample returns
DirectLight_IgnoreFound(s) ==
    LET light_t == path_state_rng_1D(rng[s], PRNG_LIGHT)
        light_u == path_state_rng_1D(rng[s], PRNG_LIGHT_U)
        light_v == path_state_rng_1D(rng[s], PRNG_LIGHT_V)
        terminate == path_state_rng_light_termination(rng[s])
        ls == light_sample(light_t, light_u, light_v)
        em == direct_emission(sd_flag[s], ls, terminate)
    IN  [found |-> TRUE, accepted |-> em.accepted, light_ray |-> em.light_ray,
         L_light |-> em.L_light, is_lamp |-> em.is_lamp]

\* DirectLight that adds the bsdf_eval of the neighbouring slot, which another
\* thread may be writing, to the evaluation
DirectLight_NeighbourScratch(s) ==
    LET light_t == path_state_rng_1D(rng[s], PRNG_LIGHT)
        light_u == path_state_rng_1D(rng[s], PRNG_LIGHT_U)
        light_v == path_state_rng_1D(rng[s], PRNG_LIGHT_V)
        terminate == path_state_rng_light_termination(rng[s])
        ls == light_sample(light_t, light_u, light_v)
        em == direct_emission(sd_flag[s], ls, terminate)
    IN  [found |-> ls.found, accepted |-> em.accepted, light_ray |-> em.light_ray,
         L_light |-> em.L_light + bsdf_eval[(s + 1) % NumSlots],
         is_lamp |-> em.is_lamp]

\* lines 93-114: the light sample and the emission of one slot
DirectLight(s) ==
    LET light_t == path_state_rng_1D(rng[s], PRNG_LIGHT)
        light_u == path_state_rng_1D(rng[s], PRNG_LIGHT_U)
        light_v == path_state_rng_1D(rng[s], PRNG_LIGHT_V)
        terminate == path_state_rng_light_termination(rng[s])
        ls == light_sample(light_t, light_u, light_v)
        em == direct_emission(sd_flag[s], ls, terminate)
    IN  [found |-> ls.found, accepted |-> em.accepted, light_ray |-> em.light_ray,
         L_light |-> em.L_light, is_lamp |-> em.is_lamp]

\* SelectedForLight without the test of SD_BSDF_HAS_EVAL
SelectedForLight_NoEval(s) ==
    /\ IS_STATE(ray_state[s], RAY_ACTIVE)
    /\ EMISSION
    /\ use_direct_light

\* SelectedForLight without the test of use_direct_light
SelectedForLight_IgnoreSetting(s) ==
    /\ IS_STATE(ray_state[s], RAY_ACTIVE)
    /\ EMISSION
    /\ BitAnd(sd_flag[s], SD_BSDF_HAS_EVAL) # 0

\* lines 83-91: the tests a slot must pass before a light is sampled
SelectedForLight(s) ==
    /\ IS_STATE(ray_state[s], RAY_ACTIVE)
    /\ EMISSION
    /\ use_direct_light
    /\ BitAnd(sd_flag[s], SD_BSDF_HAS_EVAL) # 0

\* lines 134-143: without __EMISSION__ the kernel ends after the domain work
AfterShade == IF EMISSION THEN "enqueue" ELSE "done"

\* Shade without line 120: is_lamp keeps the value of an earlier round
Shade_NoIsLamp(t) ==
    /\ pc[t] = "shade"
    /\ LET s == ray_index[t]
       IN  IF s = QUEUE_EMPTY_SLOT
           THEN /\ pc' = [pc EXCEPT ![t] = AfterShade]
                /\ UNCHANGED <<light_ray, bsdf_eval, accessed, written>>
           ELSE /\ accessed' = [accessed EXCEPT ![t] = @ \cup {s}]
                /\ IF SelectedForLight(s) /\ DirectLight(s).found /\ DirectLight(s).accepted
                   THEN /\ light_ray' = [light_ray EXCEPT ![s] = DirectLight(s).light_ray]
                        /\ bsdf_eval' = [bsdf_eval EXCEPT ![s] = DirectLight(s).L_light]
                        /\ written' = written \cup {<<s, "light_ray">>, <<s, "bsdf_eval">>}
                        /\ pc' = [pc EXCEPT ![t] = "mark"]
                   ELSE /\ pc' = [pc EXCEPT ![t] = AfterShade]
                        /\ UNCHANGED <<light_ray, bsdf_eval, written>>
    /\ UNCHANGED <<config, barriers_reached, queue_data, queue_index, ray_state,
                   is_lamp, local_queue_atomics, local_queue, queue_offset,
                   ray_index, enqueue_flag, lqidx, counter_resets, reservations>>

\* lines 79-120: the domain work; an accepted sample is written to the slot
Shade(t) ==
    /\ pc[t] = "shade"
    /\ LET s == ray_index[t]
       IN  IF s = QUEUE_EMPTY_SLOT
           THEN /\ pc' = [pc EXCEPT ![t] = AfterShade]
                /\ UNCHANGED <<light_ray, bsdf_eval, is_lamp, accessed, written>>
           ELSE /\ accessed' = [accessed EXCEPT ![t] = @ \cup {s}]
                /\ IF SelectedForLight(s) /\ DirectLight(s).found /\ DirectLight(s).accepted
                   THEN /\ light_ray' = [light_ray EXCEPT ![s] = DirectLight(s).light_ray]
                        /\ bsdf_eval' = [bsdf_eval EXCEPT ![s] = DirectLight(s).L_light]
                        /\ is_lamp' = [is_lamp EXCEPT ![s] = DirectLight(s).is_lamp]
                        /\ written' = written \cup
                               {<<s, "light_ray">>, <<s, "bsdf_eval">>, <<s, "is_lamp">>}
                        /\ pc' = [pc EXCEPT ![t] = "mark"]
                   ELSE /\ pc' = [pc EXCEPT ![t] = AfterShade]
                        /\ UNCHANGED <<light_ray, bsdf_eval, is_lamp, written>>
    /\ UNCHANGED <<config, barriers_reached, queue_data, queue_index, ray_state,
                   local_queue_atomics,
                   local_queue, queue_offset, ray_index, enqueue_flag, lqidx,
                   counter_resets, reservations>>

\* MarkRay that assigns the flag instead of adding it
MarkRay_Assign(t) ==
    /\ pc[t] = "mark"
    /\ ray_state' = [ray_state EXCEPT ![ray_index[t]] = RAY_SHADOW_RAY_CAST_DL]
    /\ written' = written \cup {<<ray_index[t], "ray_state">>}
    /\ enqueue_flag' = [enqueue_flag EXCEPT ![t] = 1]
    /\ pc' = [pc EXCEPT ![t] = "enqueue"]
    /\ UNCHANGED <<config, barriers_reached, queue_data, queue_index, light_ray,
                   bsdf_eval, is_lamp,
                   local_queue_atomics, local_queue, queue_offset, ray_index,
                   lqidx, accessed, counter_resets, reservations>>

\* MarkRay without line 123
MarkRay_NoEnqueueFlag(t) ==
    /\ pc[t] = "mark"
    /\ ray_state' = [ray_state EXCEPT ![ray_index[t]] =
                        ADD_RAY_FLAG(@, RAY_SHADOW_RAY_CAST_DL)]
    /\ written' = written \cup {<<ray_index[t], "ray_state">>}
    /\ pc' = [pc EXCEPT ![t] = "enqueue"]
    /\ UNCHANGED <<config, barriers_reached, queue_data, queue_index, light_ray,
                   bsdf_eval, is_lamp,
                   local_queue_atomics, local_queue, queue_offset, ray_index,
                   enqueue_flag, lqidx, accessed, counter_resets, reservations>>

\* lines 121-123: the slot gains RAY_SHADOW_RAY_CAST_DL, the thread will enqueue
MarkRay(t) ==
    /\ pc[t] = "mark"
    /\ ray_state' = [ray_state EXCEPT ![ray_index[t]] =
                        ADD_RAY_FLAG(@, RAY_SHADOW_RAY_CAST_DL)]
    /\ written' = written \cup {<<ray_index[t], "ray_state">>}
    /\ enqueue_flag' = [enqueue_flag EXCEPT ![t] = 1]
    /\ pc' = [pc EXCEPT ![t] = "enqueue"]
    /\ UNCHANGED <<config, barriers_reached, queue_data, queue_index, light_ray,
                   bsdf_eval, is_lamp,
                   local_queue_atomics, local_queue, queue_offset, ray_index,
                   lqidx, accessed, counter_resets, reservations>>

\* enqueue_ray_index_local, local stage: a qualifying thread claims an offset
\* with a group-local atomic increment and stages its slot index there
LocalEnqueue(t) ==
    /\ pc[t] = "enqueue"
    /\ IF enqueue_flag[t] # 0
       THEN /\ lqidx' = [lqidx EXCEPT ![t] = local_queue_atomics[GroupOf(t)]]
            /\ local_queue_atomics' = [local_queue_atomics EXCEPT ![GroupOf(t)] = @ + 1]
            /\ local_queue' = [local_queue EXCEPT
                                  ![GroupOf(t)][local_queue_atomics[GroupOf(t)]] = ray_index[t]]
       ELSE UNCHANGED <<lqidx, local_queue_atomics, local_queue>>
    /\ pc' = [pc EXCEPT ![t] = "reserve"]
    /\ barriers_reached' = [barriers_reached EXCEPT ![t] = @ + 1]
    /\ UNCHANGED <<config, queue_data, queue_index, ray_state, light_ray, bsdf_eval,
                   is_lamp, queue_offset, ray_index, enqueue_flag, accessed, written,
                   counter_resets, reservations>>

\* enqueue_ray_index_local, global stage: after the barrier the group's
\* representative reserves a region with one global fetch-and-add
GlobalReserve(t, queue_number) ==
    /\ pc[t] = "reserve"
    /\ BarrierPassed(GroupOf(t), 5)
    /\ IF IsRepresentative(t)
       THEN /\ queue_offset' = [queue_offset EXCEPT ![GroupOf(t)] =
                                   queue_index[queue_number]]
            /\ queue_index' = [queue_index EXCEPT ![queue_number] =
                                   @ + local_queue_atomics[GroupOf(t)]]
            /\ reservations' = Append(reservations,
                                   [group |-> GroupOf(t),
                                    thread |-> t,
                                    start |-> queue_index[queue_number],
                                    count |-> local_queue_atomics[GroupOf(t)]])
       ELSE UNCHANGED <<queue_offset, queue_index, reservations>>
    /\ pc' = [pc EXCEPT ![t] = "copy"]
    /\ barriers_reached' = [barriers_reached EXCEPT ![t] = @ + 1]
    /\ UNCHANGED <<config, queue_data, ray_state, light_ray, bsdf_eval, is_lamp,
                   local_queue_atomics, local_queue, ray_index, enqueue_flag, lqidx,
                   accessed, written, counter_resets>>

\* enqueue_ray_index_local, copy: after the barrier every qualifying thread
\* copies its staged slot index into the reserved region
CopyToQueue(t, queue_number, queuesize) ==
    /\ pc[t] = "copy"
    /\ BarrierPassed(GroupOf(t), 6)
    /\ IF enqueue_flag[t] # 0
       THEN queue_data' = [queue_data EXCEPT
                ![QueuePos(queue_number, queuesize,
                           queue_offset[GroupOf(t)] + lqidx[t])] =
                    local_queue[GroupOf(t)][lqidx[t]]]
       ELSE UNCHANGED queue_data
    /\ pc' = [pc EXCEPT ![t] = "done"]
    /\ UNCHANGED <<config, barriers_reached, queue_index, ray_state, light_ray,
                   bsdf_eval, is_lamp,
                   local_queue_atomics, local_queue, queue_offset, ray_index,
                   enqueue_flag, lqidx, accessed, written, counter_resets,
                   reservations>>

\* EnqueueShadowRays with the queue of the ambient-occlusion stage as target
EnqueueShadowRays_WrongQueue(t) ==
    \/ LocalEnqueue(t)
    \/ GlobalReserve(t, QUEUE_SHADOW_RAY_CAST_AO_RAYS)
    \/ CopyToQueue(t, QUEUE_SHADOW_RAY_CAST_AO_RAYS, queue_size)

\* EnqueueShadowRays with a queue size that is one entry too large
EnqueueShadowRays_WrongSize(t) ==
    \/ LocalEnqueue(t)
    \/ GlobalReserve(t, QUEUE_SHADOW_RAY_CAST_DL_RAYS)
    \/ CopyToQueue(t, QUEUE_SHADOW_RAY_CAST_DL_RAYS, queue_size + 1)

\* lines 134-143: the call of enqueue_ray_index_local and its arguments
EnqueueShadowRays(t) ==
    \/ LocalEnqueue(t)
    \/ GlobalReserve(t, QUEUE_SHADOW_RAY_CAST_DL_RAYS)
    \/ CopyToQueue(t, QUEUE_SHADOW_RAY_CAST_DL_RAYS, queue_size)

\* every launched thread runs the kernel once
Next ==
    \/ \E t \in 0 .. (MaxThreads - 1) : t \in Threads /\ ResetLocalCounter(t)
    \/ \E t \in 0 .. (MaxThreads - 1) : t \in Threads /\ GetRayIndex(t)
    \/ \E t \in 0 .. (MaxThreads - 1) : t \in Threads /\ Shade(t)
    \/ \E t \in 0 .. (MaxThreads - 1) : t \in Threads /\ MarkRay(t)
    \/ \E t \in 0 .. (MaxThreads - 1) : t \in Threads /\ EnqueueShadowRays(t)

Spec == Init /\ [][Next]_vars

\* the device keeps running threads as long as one of them can take a step
FairSpec == Spec /\ WF_vars(Next)

AllDone == \A t \in Threads : pc[t] = "done"

(* ------------------------- the output queue ---------------------------- *)
OutputCount == queue_index[QUEUE_SHADOW_RAY_CAST_DL_RAYS]
OutputAt(i) == queue_data[QueuePos(QUEUE_SHADOW_RAY_CAST_DL_RAYS, queue_size, i)]
OutputSlots == {OutputAt(i) : i \in 0 .. (OutputCount - 1)}
\* the threads that set enqueue_flag, and their slot indices
QualifyingThreads == {t \in Threads : enqueue_flag[t] # 0}
Qualifying == {ray_index[t] : t \in QualifyingThreads}
NumQualifying(g) == Cardinality(QualifyingThreads \cap GroupThreads(g))
\* the entry of the input queue a thread is dispatched on
Dispatched(t) == queue_data0[QueuePos(QUEUE_ACTIVE_AND_REGENERATED_RAYS, queue_size, t)]

RECURSIVE SumCounts(_, _)
\* sum of the qualifying threads of the groups of the first n reservations
SumCounts(res, n) ==
    IF n = 0 THEN 0 ELSE SumCounts(res, n - 1) + NumQualifying(res[n].group)

(* ------------------------------- claims -------------------------------- *)

C2_ReservationsOrdered ==
    /\ \A n \in 1 .. Len(reservations) :
          /\ reservations[n].start =
                queue_index0[QUEUE_SHADOW_RAY_CAST_DL_RAYS] + SumCounts(reservations, n - 1)
          /\ reservations[n].count = NumQualifying(reservations[n].group)
          /\ queue_offset[reservations[n].group] = reservations[n].start
    /\ \A m, n \in 1 .. Len(reservations) :
          m < n => reservations[m].start + reservations[m].count <= reservations[n].start
    /\ OutputCount =
          queue_index0[QUEUE_SHADOW_RAY_CAST_DL_RAYS] + SumCounts(reservations, Len(reservations))
\* C2, with the counter: the reservations are ordered as above in every
\* state and no step decreases the counter of the output queue.
C2_NoOverlap ==
    /\ []C2_ReservationsOrdered
    /\ [][queue_index'[QUEUE_SHADOW_RAY_CAST_DL_RAYS] >=
              queue_index[QUEUE_SHADOW_RAY_CAST_DL_RAYS]]_vars

\* C2 witness: two groups have reserved non-empty regions, the second
\* starting where the first ends.
C2_Witness ==
    /\ Len(reservations) >= 2
    /\ reservations[1].count >= 1
    /\ reservations[2].count >= 1
    /\ reservations[2].start = reservations[1].start + reservations[1].count
    /\ reservations[1].group # reservations[2].group

(* --------------------- what a slot is at entry ------------------------- *)
HasFlag(rs, flag) == BitAnd(rs, flag) # 0
DispatchedSlots == {Dispatched(t) : t \in Threads} \ {QUEUE_EMPTY_SLOT}
InputSeq == [i \in 1 .. queue_size |-> Dispatched(i - 1)]
\* the slots that are RAY_ACTIVE at entry, and those with evaluable BSDF
ActiveSlots == {s \in Slots : IS_STATE(InitRayState[s], RAY_ACTIVE)}
EvaluableSlots == {s \in Slots : BitAnd(InitSdFlag[s], SD_BSDF_HAS_EVAL) # 0}
ActiveAtEntry(s) == s \in ActiveSlots
Evaluable(s) == s \in EvaluableSlots
\* what the external routines return for the slots' inputs at entry
LightSamples ==
    [s \in Slots |->
        light_sample(path_state_rng_1D(InitRng[s], PRNG_LIGHT),
                     path_state_rng_1D(InitRng[s], PRNG_LIGHT_U),
                     path_state_rng_1D(InitRng[s], PRNG_LIGHT_V))]
Emissions ==
    [s \in Slots |->
        direct_emission(InitSdFlag[s], LightSamples[s],
                        path_state_rng_light_termination(InitRng[s]))]
LightSampleOf(s) == LightSamples[s]
EmissionOf(s) == Emissions[s]
FindsLight(s) == LightSampleOf(s).found
AcceptsSample(s) == EmissionOf(s).accepted
\* the four conditions of the selection rule
PassesAll(s) ==
    /\ ActiveAtEntry(s)
    /\ Evaluable(s)
    /\ FindsLight(s)
    /\ AcceptsSample(s)
\* the stage left the slot as it found it
Untouched(s) ==
    /\ ray_state[s] = InitRayState[s]
    /\ light_ray[s] = StaleRay
    /\ bsdf_eval[s] = StaleEval
    /\ is_lamp[s] = FALSE
    /\ \A f \in {"ray_state", "light_ray", "bsdf_eval", "is_lamp"} : <<s, f>> \notin written
\* the slot is nowhere in the region of the output queue
NotInOutput(s) == \A i \in 0 .. (queue_size - 1) : OutputAt(i) # s
\* the scratch fields of the slot hold the sample of this invocation
Populated(s) ==
    /\ light_ray[s] = EmissionOf(s).light_ray
    /\ bsdf_eval[s] = EmissionOf(s).L_light
    /\ is_lamp[s] = EmissionOf(s).is_lamp
    /\ {<<s, "light_ray">>, <<s, "bsdf_eval">>, <<s, "is_lamp">>} \subseteq written
ScenarioInput == global_size = 3 /\ InputSeq = <<3, 7, 9>>
ScenarioOutput ==
    /\ OutputCount = 1
    /\ OutputAt(0) = 3
    /\ HasFlag(ray_state[3], RAY_SHADOW_RAY_CAST_DL)
    /\ Populated(3)
    /\ Untouched(7)
    /\ Untouched(9)

\* C3 as stated: after the stage a dispatched slot is in the output queue
\* and carries RAY_SHADOW_RAY_CAST_DL if and only if it is RAY_ACTIVE, has an
\* evaluable BSDF, finds a light and has its sample accepted; the input
\* queue [3, 7, 9] yields the output queue [3].
C3_SelectionRule_AsStated ==
    AllDone =>
        /\ \A s \in DispatchedSlots :
              /\ (s \in OutputSlots) <=> PassesAll(s)
              /\ HasFlag(ray_state[s], RAY_SHADOW_RAY_CAST_DL) <=> PassesAll(s)
        /\ ScenarioInput => ScenarioOutput

\* C3 (amended): the selection rule holds when direct lighting is enabled,
\* that is the kernel is built with __EMISSION__ and use_direct_light is
\* set: then a dispatched slot is enqueued and flagged if and only if it
\* passes the four tests, and the input queue [3, 7, 9] yields [3] with slot
\* 3 flagged and populated and slots 7 and 9 untouched.  With direct
\* lighting disabled no slot is enqueued or flagged.
C3_SelectionRule ==
    AllDone =>
        /\ \A s \in DispatchedSlots :
              /\ (s \in OutputSlots) <=> (EMISSION /\ use_direct_light /\ PassesAll(s))
              /\ HasFlag(ray_state[s], RAY_SHADOW_RAY_CAST_DL)
                    <=> (EMISSION /\ use_direct_light /\ PassesAll(s))
        /\ (ScenarioInput /\ EMISSION /\ use_direct_light) => ScenarioOutput

\* C3 witness: the scenario has run to its end with direct lighting enabled.
C3_Witness ==
    /\ AllDone
    /\ ScenarioInput
    /\ EMISSION
    /\ use_direct_light
    /\ ScenarioOutput

\* C4: idempotent no-op.  A slot that is not RAY_ACTIVE, or whose BSDF cannot
\* be evaluated, is never in the output queue, and its state flags and its
\* scratch fields are never written.
C4_IdempotentNoOp ==
    \A s \in Slots :
        (~ActiveAtEntry(s) \/ ~Evaluable(s)) => (NotInOutput(s) /\ Untouched(s))

\* C4 witness: the stage has finished on an input holding a slot that is not
\* RAY_ACTIVE and a RAY_ACTIVE slot without evaluable BSDF, and has enqueued
\* another slot.
C4_Witness ==
    /\ AllDone
    /\ OutputCount >= 1
    /\ \E s, r \in DispatchedSlots :
          /\ ~ActiveAtEntry(s)
          /\ ActiveAtEntry(r)
          /\ ~Evaluable(r)
          /\ \E t, u \in Threads : accessed[t] = {s} /\ accessed[u] = {r}

\* C5: rejection is a no-op.  A RAY_ACTIVE slot with evaluable BSDF for which
\* light_sample finds no light, or whose sample direct_emission rejects,
\* stays RAY_ACTIVE with its flags and scratch fields unwritten and is never
\* in the output queue.
C5_RejectionNoOp ==
    \A s \in Slots :
        (ActiveAtEntry(s) /\ Evaluable(s)
            /\ (~FindsLight(s) \/ ~AcceptsSample(s)))
        => /\ IS_STATE(ray_state[s], RAY_ACTIVE)
           /\ Untouched(s)
           /\ NotInOutput(s)

\* C5 witness: with direct lighting enabled the stage has finished on an
\* input holding a slot that found no light and a slot whose sample was
\* rejected, and has enqueued another slot.
C5_Witness ==
    /\ AllDone
    /\ EMISSION
    /\ use_direct_light
    /\ OutputCount >= 1
    /\ \E s, r \in DispatchedSlots :
          /\ ActiveAtEntry(s) /\ Evaluable(s) /\ ~FindsLight(s)
          /\ ActiveAtEntry(r) /\ Evaluable(r)
          /\ FindsLight(r) /\ ~AcceptsSample(r)
          /\ \E t, u \in Threads : accessed[t] = {s} /\ accessed[u] = {r}

\* C6: flag composition.  No step of the stage clears a flag of a slot, and
\* a slot that was RAY_ACTIVE at entry is still RAY_ACTIVE once it carries
\* RAY_SHADOW_RAY_CAST_DL.
C6_FlagsKept ==
    \A s \in Slots :
        /\ BitAnd(ray_state[s], InitRayState[s]) = InitRayState[s]
        /\ (HasFlag(ray_state[s], RAY_SHADOW_RAY_CAST_DL) /\ ActiveAtEntry(s))
              => IS_STATE(ray_state[s], RAY_ACTIVE)
\* C6, with the steps: the flags of entry are kept in every state and no
\* step clears a bit of any slot's ray_state.
C6_FlagComposition ==
    /\ []C6_FlagsKept
    /\ [][\A s \in Slots : BitAnd(ray_state[s], ray_state'[s]) = ray_state[s]]_vars

\* C6 witness: a slot that was RAY_ACTIVE and marked RAY_SHADOW_RAY_CAST_AO
\* at entry has gained RAY_SHADOW_RAY_CAST_DL and kept both.
C6_Witness ==
    \E s \in Slots :
        /\ InitRayState[s] = RAY_ACTIVE + RAY_SHADOW_RAY_CAST_AO
        /\ ray_state[s] = RAY_ACTIVE + RAY_SHADOW_RAY_CAST_AO + RAY_SHADOW_RAY_CAST_DL
        /\ <<s, "ray_state">> \in written

\* C7: the input queues are left unchanged.  In every state the entries and
\* the counters of every queue but QUEUE_SHADOW_RAY_CAST_DL_RAYS are those
\* of the entry of the stage, and the output queue was empty at entry.
C7_InputQueuesUnchanged ==
    /\ queue_index0[QUEUE_SHADOW_RAY_CAST_DL_RAYS] = 0
    /\ \A q \in 0 .. (NUM_QUEUES - 1) :
          q # QUEUE_SHADOW_RAY_CAST_DL_RAYS =>
              /\ queue_index[q] = queue_index0[q]
              /\ \A i \in 0 .. (queue_size - 1) :
                    queue_data[QueuePos(q, queue_size, i)] =
                        queue_data0[QueuePos(q, queue_size, i)]

\* C7 witness: the stage has finished on an input queue of two entries or
\* more, all fetched, and has filled the output queue.
C7_Witness ==
    /\ AllDone
    /\ Cardinality(DispatchedSlots) >= 2
    /\ \A s \in DispatchedSlots : \E t \in Threads : ray_index[t] = s
    /\ OutputCount >= 1
    /\ \A i \in 0 .. (queue_size - 1) :
          queue_data[QueuePos(QUEUE_ACTIVE_AND_REGENERATED_RAYS, queue_size, i)] = Dispatched(i)

\* the number of threads of a group that have claimed a local offset
Claimed(g) ==
    Cardinality({u \in GroupThreads(g) : enqueue_flag[u] # 0 /\ PcRank(pc[u]) >= 5})
InputEmpty == DispatchedSlots = {}

\* C8: empty input.  A thread dispatched on an empty entry reads and writes
\* no slot, never sets enqueue_flag and never increments its group's
\* counter (after the reset the counter is the number of qualifying threads
\* that claimed an offset); when the whole input queue is empty the output
\* queue and its counter stay as they were.
C8_EmptyInput ==
    /\ \A t \in Threads :
          Dispatched(t) = QUEUE_EMPTY_SLOT =>
              /\ accessed[t] = {}
              /\ enqueue_flag[t] = 0
              /\ lqidx[t] = 0
              /\ PcRank(pc[t]) >= 2 => ray_index[t] = QUEUE_EMPTY_SLOT
    /\ \A g \in Groups :
          counter_resets[g] >= 1 => local_queue_atomics[g] = Claimed(g)
    /\ InputEmpty =>
          /\ OutputCount = queue_index0[QUEUE_SHADOW_RAY_CAST_DL_RAYS]
          /\ \A i \in 0 .. (queue_size - 1) :
                OutputAt(i) = queue_data0[QueuePos(QUEUE_SHADOW_RAY_CAST_DL_RAYS, queue_size, i)]
          /\ written = {}

\* C8 witness: in the CPU build a thread of local id 0 dispatched on an
\* empty entry went through the whole enqueue while a thread of its group
\* enqueued a slot.
C8_Witness ==
    /\ AllDone
    /\ ~COMPUTE_DEVICE_GPU
    /\ EMISSION
    /\ \E t, u \in Threads :
          /\ GroupOf(t) = GroupOf(u)
          /\ LocalId(t) = 0
          /\ Dispatched(t) = QUEUE_EMPTY_SLOT
          /\ enqueue_flag[u] # 0
          /\ ray_index[u] \in OutputSlots

\* the positions of the output queue that hold a slot of a thread of group g
GroupPositions(g) ==
    {i \in 0 .. (queue_size - 1) :
        \E t \in GroupThreads(g) : enqueue_flag[t] # 0 /\ OutputAt(i) = ray_index[t]}
ReservationsOf(g) == {n \in 1 .. Len(reservations) : reservations[n].group = g}

\* C9: contiguous block reservation.  After the stage the slots of each
\* group with a qualifying thread occupy one region of the output queue, as
\* long as the group has qualifying threads, starting at the value the
\* counter had right before the group's one reservation; the counter has
\* grown by the number of qualifying threads.
C9_ContiguousBlocks ==
    AllDone =>
        /\ \A g \in Groups :
              NumQualifying(g) > 0 =>
                  /\ Cardinality(ReservationsOf(g)) = 1
                  /\ \A n \in ReservationsOf(g) :
                        GroupPositions(g) =
                            reservations[n].start ..
                                (reservations[n].start + NumQualifying(g) - 1)
        /\ OutputCount =
              queue_index0[QUEUE_SHADOW_RAY_CAST_DL_RAYS] + Cardinality(QualifyingThreads)

\* C9 witness: one group of four threads or more, all qualifying, has
\* finished; its block starts at the counter of entry and the counter has
\* grown by the size of the group.
C9_Witness ==
    /\ AllDone
    /\ local_size >= 4
    /\ global_size = local_size
    /\ NumQualifying(0) = local_size
    /\ reservations[1].start = queue_index0[QUEUE_SHADOW_RAY_CAST_DL_RAYS]
    /\ OutputCount = queue_index0[QUEUE_SHADOW_RAY_CAST_DL_RAYS] + local_size

\* what the stage must leave in a slot, as a function of the inputs at entry
WillQualify(s) ==
    s \in DispatchedSlots /\ EMISSION /\ use_direct_light /\ PassesAll(s)
ExpectedRayState(s) ==
    IF WillQualify(s) THEN InitRayState[s] + RAY_SHADOW_RAY_CAST_DL ELSE InitRayState[s]
ExpectedLightRay(s) == IF WillQualify(s) THEN EmissionOf(s).light_ray ELSE StaleRay
ExpectedBsdfEval(s) == IF WillQualify(s) THEN EmissionOf(s).L_light ELSE StaleEval
ExpectedIsLamp(s) == IF WillQualify(s) THEN EmissionOf(s).is_lamp ELSE FALSE

\* C10: determinism.  The result of the stage is a function of its inputs
\* at entry (RNG state, shading data, ray states, input queue, settings):
\* whatever the interleaving of the threads and groups, every slot ends with
\* the same light_ray, bsdf_eval, is_lamp and ray_state, and the output
\* queue holds the same set of slot indices.
C10_Deterministic ==
    AllDone =>
        /\ \A s \in Slots :
              /\ light_ray[s] = ExpectedLightRay(s)
              /\ bsdf_eval[s] = ExpectedBsdfEval(s)
              /\ is_lamp[s] = ExpectedIsLamp(s)
              /\ ray_state[s] = ExpectedRayState(s)
        /\ OutputSlots = {s \in Slots : WillQualify(s)}

\* C10 witness: two groups have finished, both have enqueued, and the
\* second group of the dispatch reserved its region before the first.
C10_Witness ==
    /\ AllDone
    /\ Len(reservations) >= 2
    /\ reservations[1].group > reservations[2].group
    /\ reservations[1].count >= 1
    /\ reservations[2].count >= 1
    /\ \E s \in OutputSlots : is_lamp[s]
    /\ \E s \in OutputSlots : ~is_lamp[s]

(* ----------------------- one reservation per group --------------------- *)
\* the thread returns at line 75: GPU build, empty entry of the input queue
ReturnsEarly(t) == COMPUTE_DEVICE_GPU /\ Dispatched(t) = QUEUE_EMPTY_SLOT
\* the thread executes the call of lines 134-143
ReachesEnqueue(t) == EMISSION /\ ~ReturnsEarly(t)
\* the group has a thread that executes the enqueue
GroupEnqueues(g) == \E t \in GroupThreads(g) : ReachesEnqueue(t)
\* every reservation made so far is the only one of its group, was made by
\* a thread of that group which executes the enqueue, and adds the group's
\* final local count
ReservationsWellFormed ==
    \A n \in 1 .. Len(reservations) :
        /\ ReservationsOf(reservations[n].group) = {n}
        /\ reservations[n].thread \in GroupThreads(reservations[n].group)
        /\ ReachesEnqueue(reservations[n].thread)
        /\ reservations[n].count = local_queue_atomics[reservations[n].group]
        /\ reservations[n].count = NumQualifying(reservations[n].group)

BarriersOfStage == IF EMISSION THEN 3 ELSE 1
\* the barriers a thread arrives at: a thread that returns at line 75 has
\* arrived at the barrier of line 56 only
BarriersOfThread(t) == IF ReturnsEarly(t) THEN 1 ELSE BarriersOfStage
\* the thread has no work: empty entry, slot not selected, or no accepted sample
NoWork(t) == Dispatched(t) = QUEUE_EMPTY_SLOT \/ ~WillQualify(Dispatched(t))

\* C12 as stated: every thread that has finished, a thread without work
\* included, has arrived at every barrier of the stage (the barrier after
\* the reset of the local counter and the barriers of the enqueue).
C12_EveryBarrierReached_AsStated ==
    \A t \in Threads : pc[t] = "done" => barriers_reached[t] = BarriersOfStage

\* C12 (amended): barrier participation and termination.  Every thread
\* arrives at the barrier after the reset of the local counter; every
\* thread that does not return at line 75 (in the CPU build every thread),
\* a thread without work included, arrives at both barriers of the
\* enqueue; a thread of the GPU build dispatched on an empty entry returns
\* after the first barrier and is not waited for.  Every thread of the
\* stage eventually finishes.
C12_BarrierParticipation ==
    /\ [](\A t \in Threads :
            /\ barriers_reached[t] <= BarriersOfThread(t)
            /\ pc[t] # "reset" => barriers_reached[t] >= 1
            /\ pc[t] = "done" => barriers_reached[t] = BarriersOfThread(t))
    /\ <>AllDone

\* C12 witness: a finished CPU run in which a thread on an empty entry, a
\* thread on a slot that is not selected and a thread that enqueued have
\* all arrived at the three barriers.
C12_Witness ==
    /\ AllDone
    /\ ~COMPUTE_DEVICE_GPU
    /\ EMISSION
    /\ \E t, u, v \in Threads :
          /\ GroupOf(t) = GroupOf(u)
          /\ GroupOf(u) = GroupOf(v)
          /\ Dispatched(t) = QUEUE_EMPTY_SLOT
          /\ Dispatched(u) # QUEUE_EMPTY_SLOT
          /\ NoWork(u)
          /\ enqueue_flag[v] # 0
          /\ \A w \in {t, u, v} : barriers_reached[w] = BarriersOfStage

(* -------------------- local stage before global stage ------------------ *)
\* the step is the global fetch-and-add of group g
ReserveStep(g) ==
    /\ Len(reservations') = Len(reservations) + 1
    /\ reservations'[Len(reservations')].group = g
\* the step is thread t copying its slot index into the global queue array
CopyStep(t) ==
    /\ pc[t] = "copy"
    /\ pc'[t] = "done"
    /\ enqueue_flag[t] # 0
\* the thread has made its group-local atomic increment
Incremented(u) == enqueue_flag[u] # 0 /\ PcRank(pc[u]) >= 5
\* the thread is past the point where it could still set enqueue_flag or
\* increment the local counter
PastLocalStage(u) == PcRank(pc[u]) >= 5

\* C13: local-before-global ordering.  When a group makes its global
\* reservation every thread of the group is past the local stage, so every
\* qualifying thread has completed its local increment and the reservation
\* adds their number; a thread copies its slot index into the global queue
\* array only after its group's reservation has been made, and nothing
\* else writes the queue array after the fetch of the input entries.
C13_LocalBeforeGlobal ==
    [][/\ \A g \in Groups :
             ReserveStep(g) =>
                 /\ \A u \in GroupThreads(g) : PastLocalStage(u)
                 /\ \A u \in GroupThreads(g) : enqueue_flag[u] # 0 => Incremented(u)
                 /\ reservations'[Len(reservations')].count = Claimed(g)
                 /\ \A u \in GroupThreads(g) : ~(pc[u] = "done" /\ enqueue_flag[u] # 0)
       /\ \A t \in Threads :
             CopyStep(t) =>
                 /\ ReservationsOf(GroupOf(t)) # {}
                 /\ queue_offset[GroupOf(t)] =
                       reservations[CHOOSE n \in ReservationsOf(GroupOf(t)) : TRUE].start
       /\ (\E i \in 0 .. (queue_size - 1) : OutputAt(i)' # OutputAt(i)) =>
             \E t \in Threads : CopyStep(t)]_vars

\* C13 witness: a group of two or more qualifying threads has made its
\* reservation, one of its threads has copied its slot index and another
\* has not yet, while a thread of another group is still before its local
\* increment.
C13_Witness ==
    \E g, h \in Groups :
        /\ g # h
        /\ ReservationsOf(g) # {}
        /\ NumQualifying(g) >= 2
        /\ \E t, u \in GroupThreads(g) :
              /\ enqueue_flag[t] # 0 /\ pc[t] = "done"
              /\ enqueue_flag[u] # 0 /\ pc[u] = "copy"
        /\ \E v \in GroupThreads(h) : enqueue_flag[v] # 0 /\ pc[v] = "enqueue"

(* ------------------- reset of the local counter ------------------------ *)
\* the step is a reset of the local counter of group g
ResetStep(g) == counter_resets'[g] # counter_resets[g]
\* the thread of group g with local id (0, 0)
GroupLeader(g) == CHOOSE t \in GroupThreads(g) : LocalId(t) = 0
\* the thread has read the local counter: in its own increment, or as the
\* representative in the global reservation
UsedCounter(u) ==
    \/ Incremented(u)
    \/ \E n \in 1 .. Len(reservations) : reservations[n].thread = u

\* the reset of a group's counter is there before any use, and from then on
\* the counter is the number of increments made
ResetBeforeUse ==
    \A g \in Groups :
        /\ counter_resets[g] <= 1
        /\ counter_resets[g] = 1 <=> pc[GroupLeader(g)] # "reset"
        /\ (\E u \in GroupThreads(g) : pc[u] \notin {"reset", "fetch"}) =>
               counter_resets[g] = 1
        /\ (\E u \in GroupThreads(g) : UsedCounter(u)) => counter_resets[g] = 1
        /\ counter_resets[g] = 1 => local_queue_atomics[g] = Claimed(g)

\* C14: local counter reset precedes use.  In every group the counter
\* local_queue_atomics is set to 0 by the thread of local id (0, 0), once
\* per invocation; because of the barrier of line 56 no thread of the group
\* is past the fetch of its entry, has incremented the counter or has read
\* it before that reset; and the reset step is taken by the thread of local
\* id (0, 0) when no thread of the group has incremented the counter.
C14_ResetPrecedesUse ==
    /\ []ResetBeforeUse
    /\ [][\A g \in Groups :
              ResetStep(g) =>
                  /\ counter_resets[g] = 0
                  /\ counter_resets'[g] = 1
                  /\ local_queue_atomics'[g] = 0
                  /\ pc[GroupLeader(g)] = "reset"
                  /\ pc'[GroupLeader(g)] = "fetch"
                  /\ \A u \in GroupThreads(g) : ~UsedCounter(u)
                  /\ \A u \in GroupThreads(g) : pc[u] \in {"reset", "fetch"}]_vars

\* C14 witness: a group whose counter started with a value other than 0 has
\* been reset once, two of its threads have incremented the counter and its
\* reservation has added 2, while another thread of another group is still
\* before its group's reset.
C14_Witness ==
    \E g, h \in Groups :
        /\ g # h
        /\ counter_resets[g] = 1
        /\ local_queue_atomics[g] = 2
        /\ \E n \in ReservationsOf(g) : reservations[n].count = 2
        /\ counter_resets[h] = 0
        /\ local_queue_atomics[h] # 0

(* ---------------- scratch, then flag, then enqueue --------------------- *)
\* the stage has set the flag of the slot (line 122)
FlaggedByStage(s) == <<s, "ray_state">> \in written
\* the slot indices present in the region of the output queue
PresentInOutput == {OutputAt(i) : i \in 0 .. (queue_size - 1)} \ {QUEUE_EMPTY_SLOT}

\* C15: scratch before flag before enqueue.  In every reachable state a
\* slot whose RAY_SHADOW_RAY_CAST_DL flag was set by this stage has its
\* light_ray, bsdf_eval and is_lamp written with the sample of this
\* invocation, and a slot index is present in the output queue only if the
\* slot carries the flag, set by this stage.
C15_ScratchFlagEnqueue ==
    /\ \A s \in Slots :
          (FlaggedByStage(s) \/ HasFlag(ray_state[s], RAY_SHADOW_RAY_CAST_DL)) =>
              /\ Populated(s)
              /\ FlaggedByStage(s)
              /\ HasFlag(ray_state[s], RAY_SHADOW_RAY_CAST_DL)
    /\ \A s \in PresentInOutput :
          /\ s \in Slots
          /\ FlaggedByStage(s)
          /\ HasFlag(ray_state[s], RAY_SHADOW_RAY_CAST_DL)

\* C15 witness: one slot is in the output queue, flagged and populated as
\* a lamp sample; a second slot is flagged and populated as a sample that
\* is no lamp but not yet in the queue; a third has its scratch written
\* and no flag yet.
C15_Witness ==
    /\ \E s \in PresentInOutput : is_lamp[s]
    /\ \E r \in Slots \ PresentInOutput : FlaggedByStage(r) /\ ~is_lamp[r]
    /\ \E q \in Slots :
          /\ <<q, "light_ray">> \in written
          /\ ~FlaggedByStage(q)
          /\ ~HasFlag(ray_state[q], RAY_SHADOW_RAY_CAST_DL)

(* ------------------ the queue at the round boundary -------------------- *)
\* what the position of the output queue held at entry
OutputAtEntry(i) ==
    queue_data0[QueuePos(QUEUE_SHADOW_RAY_CAST_DL_RAYS, queue_size, i)]
\* the position holds the slot index of a thread that enqueued in this
\* invocation, written over what the position held at entry
WrittenThisInvocation(i) ==
    /\ OutputAt(i) # QUEUE_EMPTY_SLOT
    /\ OutputAt(i) # OutputAtEntry(i)
    /\ \E t \in Threads :
          /\ enqueue_flag[t] # 0
          /\ ray_index[t] = OutputAt(i)
          /\ i = queue_offset[GroupOf(t)] + lqidx[t]
\* a position below the counter that no thread has written yet
Torn == \E i \in 0 .. (OutputCount - 1) : ~WrittenThisInvocation(i)

\* C16: no torn queue at the round boundary.  Once all threads of all
\* groups have finished the stage, the counter of the output queue is
\* within the queue and every position below it holds a slot index
\* written during this invocation: no reserved entry is left unwritten.
C16_NoTornQueue ==
    AllDone => (OutputCount <= queue_size /\ ~Torn)

\* C16 witness: the stage has finished after two groups each reserved a
\* region of two entries or more, so the queue was torn on the way (a
\* group had reserved before its threads copied) and is whole at the end.
C16_Witness ==
    /\ AllDone
    /\ ~Torn
    /\ OutputCount >= 4
    /\ \E g, h \in Groups :
          /\ g # h
          /\ \E n \in ReservationsOf(g) : reservations[n].count >= 2
          /\ \E n \in ReservationsOf(h) : reservations[n].count >= 2

(* ----------------------- capacity of the output queue ------------------ *)
\* the threads dispatched on a non-empty entry of the input queue
NonEmptyInputs == {t \in Threads : Dispatched(t) # QUEUE_EMPTY_SLOT}
\* the positions of the shared queue array that belong to the output queue
OutputRegion ==
    {QueuePos(QUEUE_SHADOW_RAY_CAST_DL_RAYS, queue_size, i) : i \in 0 .. (queue_size - 1)}
\* the positions of the output queue that hold the slot index of thread t
PositionsOf(t) ==
    {i \in 0 .. (queue_size - 1) : enqueue_flag[t] # 0 /\ OutputAt(i) = ray_index[t]}
\* the counter stays within the number of non-empty input entries and the
\* capacity, and a thread holds one position at most, inside its group's
\* reserved region
WithinCapacity ==
    /\ queue_index0[QUEUE_SHADOW_RAY_CAST_DL_RAYS] = 0
    /\ OutputCount <= Cardinality(NonEmptyInputs)
    /\ Cardinality(NonEmptyInputs) <= queue_size
    /\ \A t \in Threads :
          /\ enqueue_flag[t] \in {0, 1}
          /\ Cardinality(PositionsOf(t)) <= 1
          /\ (enqueue_flag[t] # 0 /\ ReservationsOf(GroupOf(t)) # {}) =>
                queue_offset[GroupOf(t)] + lqidx[t] < OutputCount

\* C17: the output queue stays within capacity.  With the output queue
\* empty at entry, each thread enqueues one index at most, so the counter
\* of the output queue is at most the number of non-empty input entries
\* and at most queue_size; and every step that changes the shared queue
\* array changes positions of the output queue's region only and leaves
\* the extent of the array as it is.
C17_WithinCapacity ==
    /\ []WithinCapacity
    /\ [][/\ DOMAIN queue_data' = DOMAIN queue_data
           /\ \A p \in DOMAIN queue_data :
                 queue_data'[p] # queue_data[p] => p \in OutputRegion]_vars

\* C17 witness: the stage has finished with every entry of an input queue
\* of three entries or more enqueued, so the output queue is full up to
\* its last position and the regions of the other queues are as at entry.
C17_Witness ==
    /\ AllDone
    /\ queue_size >= 3
    /\ Cardinality(NonEmptyInputs) = queue_size
    /\ OutputCount = queue_size
    /\ OutputAt(queue_size - 1) # QUEUE_EMPTY_SLOT
    /\ \A p \in DOMAIN queue_data : p \notin OutputRegion => queue_data[p] = queue_data0[p]

(* ---------------------- direct lighting disabled ----------------------- *)
\* use_direct_light is off, or the kernel is built without __EMISSION__
DirectLightDisabled == ~EMISSION \/ ~use_direct_light
\* the region and the counter of the output queue are as at entry
OutputUnchanged ==
    /\ OutputCount = queue_index0[QUEUE_SHADOW_RAY_CAST_DL_RAYS]
    /\ \A i \in 0 .. (queue_size - 1) : OutputAt(i) = OutputAtEntry(i)

\* C18: direct lighting disabled.  When use_direct_light is off, or the
\* emission feature is compiled out, then in every state of the stage no
\* slot has gained RAY_SHADOW_RAY_CAST_DL, no scratch field has been
\* written, no thread has set enqueue_flag, and the output queue and its
\* counter are as at entry, whatever the states of the dispatched slots.
C18_DirectLightDisabled ==
    DirectLightDisabled =>
        /\ written = {}
        /\ \A s \in Slots :
              /\ ray_state[s] = InitRayState[s]
              /\ ~HasFlag(ray_state[s], RAY_SHADOW_RAY_CAST_DL)
              /\ light_ray[s] = StaleRay
              /\ bsdf_eval[s] = StaleEval
              /\ is_lamp[s] = FALSE
        /\ \A t \in Threads : enqueue_flag[t] = 0
        /\ OutputUnchanged

\* C18 witness: with __EMISSION__ compiled in and use_direct_light off the
\* stage has finished on an input with a slot that passes all four tests,
\* a slot that is not RAY_ACTIVE and an empty entry; every group has made
\* its reservation of zero entries and the queue is as at entry.
C18_Witness ==
    /\ AllDone
    /\ EMISSION
    /\ ~use_direct_light
    /\ \E s \in DispatchedSlots : PassesAll(s)
    /\ \E s \in DispatchedSlots : ~ActiveAtEntry(s)
    /\ \E t \in Threads : Dispatched(t) = QUEUE_EMPTY_SLOT
    /\ Len(reservations) >= 1
    /\ \A n \in 1 .. Len(reservations) : reservations[n].count = 0
    /\ OutputUnchanged

====
